---- MODULE Spec2Model ----
(***************************************************************************)
(* Model of the CFO Copilot question-answering core (src/agent/tools.py):  *)
(* the text interpreter (classify_intent, extract_month_from_text), the    *)
(* currency normalizer (to_usd), the metric engine and the orchestrator    *)
(* (respond).                                                              *)
(*                                                                         *)
(* Texts are sequences of one-character strings, so that lower(), strip(), *)
(* substring tests and the regular expressions of the source are computed  *)
(* character by character.  A pandas DataFrame is a record                 *)
(* [cols |-> set of column names, rows |-> sequence of row records].       *)
(* A float is an integer in a one-element tuple <<v>>; NaN is << >>.       *)
(* A raised Python exception is the record [exc |-> "<ExceptionName>"].    *)
(***************************************************************************)
EXTENDS Integers, Sequences, FiniteSets, TLC

VARIABLES text, fin, arg, op, ret

vars == <<text, fin, arg, op, ret>>

(***************************************************************************)
(* Bounds of the model.                                                    *)
(***************************************************************************)
\* longest question, in vocabulary tokens, of the text specifications
MaxTokens == 3

(***************************************************************************)
(* Characters and Python's str methods.                                    *)
(***************************************************************************)
UpperAlpha == <<"A","B","C","D","E","F","G","H","I","J","K","L","M",
                "N","O","P","Q","R","S","T","U","V","W","X","Y","Z">>

LowerAlpha == <<"a","b","c","d","e","f","g","h","i","j","k","l","m",
                "n","o","p","q","r","s","t","u","v","w","x","y","z">>

Digits == <<"0","1","2","3","4","5","6","7","8","9">>

Range(s) == {s[i] : i \in DOMAIN s}

IsLowerLetter(c) == c \in Range(LowerAlpha)

IsDigit(c) == c \in Range(Digits)

\* \s of the re module, on the characters the model uses
IsSpace(c) == c \in {" ", "\t", "\n"}

\* \w of the re module: letters, digits and the underscore
IsWordChar(c) == c \in Range(LowerAlpha) \cup Range(UpperAlpha) \cup Range(Digits) \cup {"_"}

LowerChar(c) ==
    IF c \in Range(UpperAlpha)
    THEN LowerAlpha[CHOOSE i \in DOMAIN UpperAlpha : UpperAlpha[i] = c]
    ELSE c

\* str.lower()
Lower(s) == [i \in DOMAIN s |-> LowerChar(s[i])]

\* str.strip(): drops the leading and the trailing whitespace
Strip(s) ==
    LET keep == {i \in DOMAIN s : ~IsSpace(s[i])}
    IN  IF keep = {} THEN << >>
        ELSE LET lo == CHOOSE i \in keep : \A j \in keep : i <= j
                 hi == CHOOSE i \in keep : \A j \in keep : j <= i
             IN  SubSeq(s, lo, hi)

\* p occurs in s at position i
OccursAt(s, p, i) ==
    /\ i >= 1
    /\ i + Len(p) - 1 <= Len(s)
    /\ SubSeq(s, i, i + Len(p) - 1) = p

\* the `in` operator of str: p is a substring of s
Contains(s, p) == \E i \in 1..(Len(s) + 1) : OccursAt(s, p, i)

\* re.search(r"\bW\b", s) for a word W of word characters: W occurs with no
\* word character right before it and none right after it
SearchWord(s, w) ==
    \E i \in 1..Len(s) :
        /\ OccursAt(s, w, i)
        /\ (i = 1 \/ ~IsWordChar(s[i - 1]))
        /\ (i + Len(w) > Len(s) \/ ~IsWordChar(s[i + Len(w)]))

\* every concatenation of at most n tokens of the vocabulary V
RECURSIVE Concats(_, _)
Concats(V, n) ==
    IF n = 0 THEN {<< >>}
    ELSE LET P == Concats(V, n - 1)
         IN  P \cup {p \o v : p \in P, v \in V}

(***************************************************************************)
(* Keywords of classify_intent.                                            *)
(***************************************************************************)
KwCashRunway == <<"c","a","s","h"," ","r","u","n","w","a","y">>
KwRunway == <<"r","u","n","w","a","y">>
KwRevenue == <<"r","e","v","e","n","u","e">>
KwVs == <<"v","s">>
KwVersus == <<"v","e","r","s","u","s">>
KwBudget == <<"b","u","d","g","e","t">>
KwGrossMargin == <<"g","r","o","s","s"," ","m","a","r","g","i","n">>
KwGmPct == <<"g","m","%">>
KwGmSpacePct == <<"g","m"," ","%">>
KwOpex == <<"o","p","e","x">>
KwOperatingExpenses == <<"o","p","e","r","a","t","i","n","g"," ",
                         "e","x","p","e","n","s","e","s">>
KwEbitda == <<"e","b","i","t","d","a">>

\* the six intents classify_intent can return
IntentNames == {"cash_runway", "revenue_vs_budget", "gross_margin_trend",
                "opex_breakdown", "ebitda_trend", "help"}

\* a plausible slip: the revenue rule tried before the runway rule
classify_intent_revenue_first(s) ==
    LET t == Strip(Lower(s))
    IN  IF Contains(t, KwRevenue)
           /\ (Contains(t, KwVs) \/ Contains(t, KwVersus) \/ Contains(t, KwBudget))
        THEN "revenue_vs_budget"
        ELSE IF Contains(t, KwCashRunway) \/ SearchWord(t, KwRunway)
        THEN "cash_runway"
        ELSE IF Contains(t, KwGrossMargin) \/ Contains(t, KwGmPct) \/ Contains(t, KwGmSpacePct)
        THEN "gross_margin_trend"
        ELSE IF Contains(t, KwOpex) \/ Contains(t, KwOperatingExpenses)
        THEN "opex_breakdown"
        ELSE IF Contains(t, KwEbitda)
        THEN "ebitda_trend"
        ELSE "help"

classify_intent(s) ==
    LET t == Strip(Lower(s))
    IN  IF Contains(t, KwCashRunway) \/ SearchWord(t, KwRunway)
        THEN "cash_runway"
        ELSE IF Contains(t, KwRevenue)
                /\ (Contains(t, KwVs) \/ Contains(t, KwVersus) \/ Contains(t, KwBudget))
        THEN "revenue_vs_budget"
        ELSE IF Contains(t, KwGrossMargin) \/ Contains(t, KwGmPct) \/ Contains(t, KwGmSpacePct)
        THEN "gross_margin_trend"
        ELSE IF Contains(t, KwOpex) \/ Contains(t, KwOperatingExpenses)
        THEN "opex_breakdown"
        ELSE IF Contains(t, KwEbitda)
        THEN "ebitda_trend"
        ELSE "help"

(***************************************************************************)
(* The snapshot.                                                           *)
(***************************************************************************)
LedgerCols == {"month", "account_category", "amount", "currency"}
FxCols == {"month", "currency", "rate_to_usd"}
CashCols == {"month", "cash_usd"}

DataFrame(cols, rows) == [cols |-> cols, rows |-> rows]

\* FinanceData: the four tables
FinanceData(actuals, budget, fx, cash) ==
    [actuals |-> DataFrame(LedgerCols, actuals), budget |-> DataFrame(LedgerCols, budget),
     fx |-> DataFrame(FxCols, fx), cash |-> DataFrame(CashCols, cash)]

\* the snapshot whose four tables have their columns and no rows
EmptyFin == FinanceData(<< >>, << >>, << >>, << >>)

None == "None"

(***************************************************************************)
(* Specification of classify_intent over the questions of IntentVocab.     *)
(***************************************************************************)
IntentVocab ==
    { <<"c","a","s","h"," ">>, KwRunway, <<"x">>, <<" ">>, KwRevenue, <<"v","s"," ">>, KwVersus,
      <<"b","u","d","g","e","t"," ">>, KwGrossMargin, <<"g","m">>, <<"%">>, <<"O","p","e","x">>,
      KwOperatingExpenses, <<"E","B","I","T","D","A">> }

InitIntent ==
    /\ text \in Concats(IntentVocab, MaxTokens)
    /\ fin = EmptyFin
    /\ arg = None
    /\ op = "init"
    /\ ret = None

ClassifyIntent ==
    /\ op' = "classify_intent"
    /\ ret' = classify_intent(text)
    /\ UNCHANGED <<text, fin, arg>>

NextIntent == ClassifyIntent

SpecIntent == InitIntent /\ [][NextIntent]_vars

(***************************************************************************)
(* C1                                                                      *)
(***************************************************************************)
\* the rules of the claim that the trimmed, lowercased text t matches
MatchedRules(t) ==
    {k \in 1..5 :
        \/ k = 1 /\ (Contains(t, KwCashRunway) \/ SearchWord(t, KwRunway))
        \/ k = 2 /\ Contains(t, KwRevenue)
                 /\ \E w \in {KwVs, KwVersus, KwBudget} : Contains(t, w)
        \/ k = 3 /\ \E w \in {KwGrossMargin, KwGmPct, KwGmSpacePct} : Contains(t, w)
        \/ k = 4 /\ \E w \in {KwOpex, KwOperatingExpenses} : Contains(t, w)
        \/ k = 5 /\ Contains(t, KwEbitda)}

IntentOfRule == <<"cash_runway", "revenue_vs_budget", "gross_margin_trend",
                  "opex_breakdown", "ebitda_trend">>

\* C1: classify_intent returns one of the six intents, namely the intent of the
\* lowest-numbered rule the trimmed, lowercased text matches, and help when it
\* matches none.
C1_FirstMatchingRuleWins ==
    op = "classify_intent" =>
        LET R == MatchedRules(Strip(Lower(text)))
        IN  /\ ret \in IntentNames
            /\ R = {} => ret = "help"
            /\ R # {} => \E k \in R : /\ \A j \in R : k <= j
                                      /\ ret = IntentOfRule[k]

\* a question that matches the runway rule and the revenue rule was classified
C1_Witness ==
    /\ op = "classify_intent"
    /\ {1, 2} \subseteq MatchedRules(Strip(Lower(text)))
    /\ ret = "cash_runway"

(***************************************************************************)
(* extract_month_from_text.                                                *)
(***************************************************************************)
\* the alternation (jan|feb|...|dec) and the list that .index() searches
MonthAbbrevs ==
    << <<"j","a","n">>, <<"f","e","b">>, <<"m","a","r">>, <<"a","p","r">>,
       <<"m","a","y">>, <<"j","u","n">>, <<"j","u","l">>, <<"a","u","g">>,
       <<"s","e","p">>, <<"o","c","t">>, <<"n","o","v">>, <<"d","e","c">> >>

KwFor == <<"f","o","r">>

\* list.index(x): the 0-based position of x in the list
ListIndex(list, x) == (CHOOSE p \in DOMAIN list : list[p] = x) - 1

\* one of the alternatives of (jan|...|dec) matches at position i
MonthAbbrevAt(t, i) == i + 2 <= Len(t) /\ SubSeq(t, i, i + 2) \in Range(MonthAbbrevs)

\* the last position of the longest run of lowercase letters that starts at i
\* (i - 1 when the run is empty): what a greedy [a-z]* consumes
LetterRunEnd(t, i) ==
    CHOOSE j \in (i - 1)..Len(t) :
        /\ \A k \in i..j : IsLowerLetter(t[k])
        /\ (j = Len(t) \/ ~IsLowerLetter(t[j + 1]))

\* the same for whitespace: what a greedy \s+ consumes
SpaceRunEnd(t, i) ==
    CHOOSE j \in (i - 1)..Len(t) :
        /\ \A k \in i..j : IsSpace(t[k])
        /\ (j = Len(t) \/ ~IsSpace(t[j + 1]))

\* [12][0-9]{3} matches at position i
YearAt(t, i) ==
    /\ i >= 1
    /\ i + 3 <= Len(t)
    /\ t[i] \in {"1", "2"}
    /\ \A k \in (i + 1)..(i + 3) : IsDigit(t[k])

\* (jan|...|dec)[a-z]*\s+([12][0-9]{3}) matches starting at position i; the
\* letters and the whitespace are consumed greedily and neither can give a
\* character back to what follows it
MonthYearAt(t, i) ==
    /\ MonthAbbrevAt(t, i)
    /\ LET j == LetterRunEnd(t, i + 3)
           k == SpaceRunEnd(t, j + 1)
       IN  k > j /\ YearAt(t, k + 1)

\* ([12][0-9]{3})-(0[1-9]|1[0-2]) matches starting at position i
YearMonthAt(t, i) ==
    /\ YearAt(t, i)
    /\ i + 6 <= Len(t)
    /\ t[i + 4] = "-"
    /\ \/ t[i + 5] = "0" /\ t[i + 6] \in {"1","2","3","4","5","6","7","8","9"}
       \/ t[i + 5] = "1" /\ t[i + 6] \in {"0","1","2"}

\* for\s+(jan|...|dec)[a-z]* matches starting at position i
ForMonthAt(t, i) ==
    /\ OccursAt(t, KwFor, i)
    /\ LET k == SpaceRunEnd(t, i + 3)
       IN  k > i + 2 /\ MonthAbbrevAt(t, k + 1)

\* re.search: the leftmost of the positions where the pattern matches, 0 for
\* no match
Leftmost(hits) == IF hits = {} THEN 0 ELSE CHOOSE i \in hits : \A j \in hits : i <= j

SearchMonthYear(t) == Leftmost({i \in 1..Len(t) : MonthYearAt(t, i)})

SearchYearMonth(t) == Leftmost({i \in 1..Len(t) : YearMonthAt(t, i)})

SearchForMonth(t) == Leftmost({i \in 1..Len(t) : ForMonthAt(t, i)})

DigitValue(c) == ListIndex(Digits, c)

\* int(s) of a string of decimal digits
RECURSIVE ParseInt(_)
ParseInt(s) ==
    IF s = << >> THEN 0
    ELSE 10 * ParseInt(SubSeq(s, 1, Len(s) - 1)) + DigitValue(s[Len(s)])

\* str(n) of a natural number
RECURSIVE FormatInt(_)
FormatInt(n) ==
    IF n < 10 THEN <<Digits[n + 1]>>
    ELSE FormatInt(n \div 10) \o <<Digits[(n % 10) + 1]>>

\* f"{n:0Wd}": str(n) padded with zeros on the left to at least w characters
RECURSIVE ZeroPad(_, _)
ZeroPad(s, w) == IF Len(s) >= w THEN s ELSE ZeroPad(<<"0">> \o s, w)

FormatPadded(n, w) == ZeroPad(FormatInt(n), w)

PartialYear == <<"X","X","X","X">>

\* a plausible slip: the + 1 after .index() forgotten
extract_month_from_text_zero_based(s) ==
    LET text_l == Lower(s)
        m  == SearchMonthYear(text_l)
        m2 == SearchYearMonth(text_l)
        m3 == SearchForMonth(text_l)
    IN  IF m # 0
        THEN LET mon_txt == SubSeq(text_l, m, m + 2)
                 k == SpaceRunEnd(text_l, LetterRunEnd(text_l, m + 3) + 1)
                 year == SubSeq(text_l, k + 1, k + 4)
                 mon_idx == ListIndex(MonthAbbrevs, mon_txt)
             IN  FormatPadded(ParseInt(year), 4) \o <<"-">> \o FormatPadded(mon_idx, 2)
        ELSE IF m2 # 0
        THEN SubSeq(text_l, m2, m2 + 6)
        ELSE IF m3 # 0
        THEN LET k == SpaceRunEnd(text_l, m3 + 3)
                 mon_txt == SubSeq(text_l, k + 1, k + 3)
                 mon_idx == ListIndex(MonthAbbrevs, mon_txt)
             IN  PartialYear \o <<"-">> \o FormatPadded(mon_idx, 2)
        ELSE None

extract_month_from_text(s) ==
    LET text_l == Lower(s)
        m  == SearchMonthYear(text_l)
        m2 == SearchYearMonth(text_l)
        m3 == SearchForMonth(text_l)
    IN  IF m # 0
        THEN LET mon_txt == SubSeq(text_l, m, m + 2)
                 k == SpaceRunEnd(text_l, LetterRunEnd(text_l, m + 3) + 1)
                 year == SubSeq(text_l, k + 1, k + 4)
                 mon_idx == ListIndex(MonthAbbrevs, mon_txt) + 1
             IN  FormatPadded(ParseInt(year), 4) \o <<"-">> \o FormatPadded(mon_idx, 2)
        ELSE IF m2 # 0
        THEN SubSeq(text_l, m2, m2 + 6)
        ELSE IF m3 # 0
        THEN LET k == SpaceRunEnd(text_l, m3 + 3)
                 mon_txt == SubSeq(text_l, k + 1, k + 3)
                 mon_idx == ListIndex(MonthAbbrevs, mon_txt) + 1
             IN  PartialYear \o <<"-">> \o FormatPadded(mon_idx, 2)
        ELSE None

(***************************************************************************)
(* Specification of extract_month_from_text over the questions of          *)
(* MonthVocab.                                                             *)
(***************************************************************************)
MonthVocab ==
    { <<"f","o","r"," ">>, <<"J","u","n","e"," ">>, <<"j","u","n">>, <<"d","e","c"," ">>,
      <<" ">>, <<"2","0","2","5">>, <<"2","0","2","5","-","0","6">>, <<"x">>, <<"3">>,
      <<"-","1">> }

InitMonth ==
    /\ text \in Concats(MonthVocab, MaxTokens)
    /\ fin = EmptyFin
    /\ arg = None
    /\ op = "init"
    /\ ret = None

ExtractMonth ==
    /\ op' = "extract_month_from_text"
    /\ ret' = extract_month_from_text(text)
    /\ UNCHANGED <<text, fin, arg>>

NextMonth == ExtractMonth

SpecMonth == InitMonth /\ [][NextMonth]_vars

(***************************************************************************)
(* C2                                                                      *)
(***************************************************************************)
\* the two-digit numbers of the twelve months
MonthNumbers ==
    << <<"0","1">>, <<"0","2">>, <<"0","3">>, <<"0","4">>, <<"0","5">>, <<"0","6">>,
       <<"0","7">>, <<"0","8">>, <<"0","9">>, <<"1","0">>, <<"1","1">>, <<"1","2">> >>

\* in t, the name of month n (its first three letters and any further letters)
\* starts at i and is followed by whitespace and then the 4-digit year y
NameThenYear(t, i, n, y) ==
    /\ OccursAt(t, MonthAbbrevs[n], i)
    /\ \E j \in (i + 2)..Len(t), k \in (i + 3)..Len(t) :
          /\ j < k
          /\ \A a \in (i + 3)..j : IsLowerLetter(t[a])
          /\ \A a \in (j + 1)..k : IsSpace(t[a])
          /\ OccursAt(t, y, k + 1)
    /\ Len(y) = 4 /\ y[1] \in {"1", "2"} /\ \A a \in 2..4 : IsDigit(y[a])

NameYearHits(t) ==
    {i \in 1..Len(t) : \E n \in 1..12, a \in i..Len(t) :
        a + 3 <= Len(t) /\ NameThenYear(t, i, n, SubSeq(t, a, a + 3))}

\* in t, a literal YYYY-MM with MM in 01..12 starts at i
LiteralAt(t, i) ==
    /\ i + 6 <= Len(t)
    /\ t[i] \in {"1", "2"}
    /\ \A a \in (i + 1)..(i + 3) : IsDigit(t[a])
    /\ t[i + 4] = "-"
    /\ SubSeq(t, i + 5, i + 6) \in Range(MonthNumbers)

LiteralHits(t) == {i \in 1..Len(t) : LiteralAt(t, i)}

\* in t, "for", whitespace and the name of month n start at i
ForThenName(t, i, n) ==
    /\ OccursAt(t, KwFor, i)
    /\ \E k \in (i + 3)..Len(t) :
          /\ \A a \in (i + 3)..k : IsSpace(t[a])
          /\ OccursAt(t, MonthAbbrevs[n], k + 1)

ForHits(t) == {i \in 1..Len(t) : \E n \in 1..12 : ForThenName(t, i, n)}

IsFirst(i, hits) == i \in hits /\ \A j \in hits : i <= j

\* C2: extract_month_from_text returns the first hit of its patterns in their
\* order: "<month name> <year>" gives that year, "-" and that month's number;
\* otherwise a literal YYYY-MM is returned as it stands; otherwise
\* "for <month name>" gives XXXX, "-" and that month's number; otherwise None.
\* A result other than None has a month part in 01..12, and a text with no
\* month name and no YYYY-MM literal gives None.
C2_ExtractMonthPatterns ==
    op = "extract_month_from_text" =>
        LET t == Lower(text)
            NY == NameYearHits(t)
            LI == LiteralHits(t)
            FO == ForHits(t)
        IN  /\ NY # {} =>
                \E i \in NY, n \in 1..12 :
                    /\ IsFirst(i, NY)
                    /\ NameThenYear(t, i, n, SubSeq(ret, 1, 4))
                    /\ ret = SubSeq(ret, 1, 4) \o <<"-">> \o MonthNumbers[n]
            /\ NY = {} /\ LI # {} =>
                \E i \in LI : IsFirst(i, LI) /\ ret = SubSeq(t, i, i + 6)
            /\ NY = {} /\ LI = {} /\ FO # {} =>
                \E i \in FO, n \in 1..12 :
                    /\ IsFirst(i, FO)
                    /\ ForThenName(t, i, n)
                    /\ ret = PartialYear \o <<"-">> \o MonthNumbers[n]
            /\ NY = {} /\ LI = {} /\ FO = {} => ret = None
            /\ ret # None => Len(ret) = 7 /\ SubSeq(ret, 6, 7) \in Range(MonthNumbers)
            /\ (LI = {} /\ \A i \in 1..Len(t) : ~MonthAbbrevAt(t, i)) => ret = None

\* a question holding a YYYY-MM literal and, after it, a month name with a year
\* of another month: the name and year win
C2_Witness ==
    /\ op = "extract_month_from_text"
    /\ NameYearHits(Lower(text)) # {}
    /\ LiteralHits(Lower(text)) # {}
    /\ ret = <<"2","0","2","5","-","1","2">>

(***************************************************************************)
(* Values of the tables.  Months and account categories are character      *)
(* sequences, as the source slices and compares them; currencies are only  *)
(* compared for equality.                                                  *)
(***************************************************************************)
\* longest table of ledger rows (Actuals, Budget, the rows given to to_usd)
MaxRows == 2

\* longest FX table
MaxFx == 2

M2025_03 == <<"2","0","2","5","-","0","3">>
M2025_04 == <<"2","0","2","5","-","0","4">>
M2025_05 == <<"2","0","2","5","-","0","5">>
M2025_06 == <<"2","0","2","5","-","0","6">>

CatRevenue == <<"R","e","v","e","n","u","e">>
CatCOGS == <<"C","O","G","S">>
OpexPrefix == <<"O","p","e","x",":">>
CatOpexAdmin == OpexPrefix \o <<"A","d","m","i","n">>
CatOpexSales == OpexPrefix \o <<"S","a","l","e","s">>

\* NaN, and a float that is a number
NaN == << >>

Num(v) == <<v>>

\* a * b of two floats: NaN when either is NaN
Mul(a, b) == IF a = NaN \/ b = NaN THEN NaN ELSE Num(a[1] * b[1])

LedgerRow(month, category, amount, currency) ==
    [month |-> month, account_category |-> category, amount |-> Num(amount),
     currency |-> currency]

FxRate(month, currency, rate) ==
    [month |-> month, currency |-> currency, rate_to_usd |-> Num(rate)]

\* every sequence of at most n elements of S
SeqsUpTo(S, n) == UNION {[1..k -> S] : k \in 0..n}

\* FxRate invariant of the data model: at most one rate per (month, currency)
UniqueFxKeys(rows) ==
    \A i, j \in DOMAIN rows :
        (rows[i].month = rows[j].month /\ rows[i].currency = rows[j].currency) => i = j

(***************************************************************************)
(* to_usd.                                                                 *)
(***************************************************************************)
\* DataFrame.merge(fx, how="inner", on=["month", "currency"]) followed by the
\* usd column: a plausible slip, how="left" forgotten, which drops the rows
\* that have no rate
RECURSIVE MergeInnerRows(_, _)
MergeInnerRows(rows, fxrows) ==
    IF rows = << >> THEN << >>
    ELSE LET r == Head(rows)
             hits == SelectSeq(fxrows, LAMBDA f : f.month = r.month /\ f.currency = r.currency)
         IN  [i \in 1..Len(hits) |-> r @@ [rate_to_usd |-> hits[i].rate_to_usd]]
             \o MergeInnerRows(Tail(rows), fxrows)

\* the rows of df.merge(fx, how="left", on=["month", "currency"]): every row of
\* df in its order, once per FX row with its month and currency, and once with
\* a NaN rate when there is none
RECURSIVE MergeLeftRows(_, _)
MergeLeftRows(rows, fxrows) ==
    IF rows = << >> THEN << >>
    ELSE LET r == Head(rows)
             hits == SelectSeq(fxrows, LAMBDA f : f.month = r.month /\ f.currency = r.currency)
         IN  (IF hits = << >>
              THEN << r @@ [rate_to_usd |-> NaN] >>
              ELSE [i \in 1..Len(hits) |-> r @@ [rate_to_usd |-> hits[i].rate_to_usd]])
             \o MergeLeftRows(Tail(rows), fxrows)

WithUsd(rows) == [i \in DOMAIN rows |-> rows[i] @@ [usd |-> Mul(rows[i].amount, rows[i].rate_to_usd)]]

to_usd_inner_join(df, fx) ==
    IF df.rows = << >>
    THEN DataFrame(df.cols \cup {"usd"}, << >>)
    ELSE DataFrame(df.cols \cup fx.cols \cup {"usd"}, WithUsd(MergeInnerRows(df.rows, fx.rows)))

to_usd(df, fx) ==
    IF df.rows = << >>
    THEN DataFrame(df.cols \cup {"usd"}, << >>)
    ELSE DataFrame(df.cols \cup fx.cols \cup {"usd"}, WithUsd(MergeLeftRows(df.rows, fx.rows)))

(***************************************************************************)
(* Specification of to_usd over short tables.                              *)
(***************************************************************************)
ToUsdRows ==
    {LedgerRow(m, CatRevenue, a, c) : m \in {M2025_05, M2025_06}, a \in {1, 2}, c \in {"USD", "EUR"}}

FxRows == {FxRate(m, c, r) : m \in {M2025_05, M2025_06}, c \in {"USD", "EUR"}, r \in {1, 2}}

FxTables == {t \in SeqsUpTo(FxRows, MaxFx) : UniqueFxKeys(t)}

InitToUsd ==
    /\ text = << >>
    /\ \E fx \in FxTables : fin = FinanceData(<< >>, << >>, fx, << >>)
    /\ \E rows \in SeqsUpTo(ToUsdRows, MaxRows) : arg = DataFrame(LedgerCols, rows)
    /\ op = "init"
    /\ ret = None

ToUsd ==
    /\ op' = "to_usd"
    /\ ret' = to_usd(arg, fin.fx)
    /\ UNCHANGED <<text, fin, arg>>

NextToUsd == ToUsd

SpecToUsd == InitToUsd /\ [][NextToUsd]_vars

(***************************************************************************)
(* C9                                                                      *)
(***************************************************************************)
\* the FX rows with the month and the currency of row r
RatesFor(r, fx) ==
    {i \in DOMAIN fx.rows : fx.rows[i].month = r.month /\ fx.rows[i].currency = r.currency}

\* C9: to_usd returns a table (it does not raise) with the usd column and as
\* many rows as it was given; row i is row i of the input with usd = amount
\* times the rate of the FX row with its month and currency, and NaN when the
\* FX table has no such row; an empty input gives an empty table with the usd
\* column.
C9_ToUsdRowByRow ==
    op = "to_usd" =>
        /\ DOMAIN ret = {"cols", "rows"}
        /\ "usd" \in ret.cols
        /\ Len(ret.rows) = Len(arg.rows)
        /\ \A i \in DOMAIN ret.rows :
              LET r == arg.rows[i]
                  out == ret.rows[i]
                  hits == RatesFor(r, fin.fx)
              IN  /\ \A c \in LedgerCols : out[c] = r[c]
                  /\ hits = {} => out.usd = NaN
                  /\ \A h \in hits :
                        out.usd = Num(r.amount[1] * fin.fx.rows[h].rate_to_usd[1])

\* two rows were converted, the first with a rate and the second without one
C9_Witness ==
    /\ op = "to_usd"
    /\ Len(arg.rows) = 2
    /\ Len(ret.rows) = 2
    /\ ret.rows[1].usd = Num(4)
    /\ ret.rows[2].usd = NaN

(***************************************************************************)
(* Helpers of the metric engine.                                           *)
(***************************************************************************)
\* most rows of a ledger table (Actuals, Budget) of the metric specifications
MaxLedger == 4

\* the characters of months and categories in the order of their code points
AsciiOrder == <<" ", "%", "-">> \o Digits \o <<":">> \o UpperAlpha \o <<"_">> \o LowerAlpha

\* a < b of two str: the comparison sorted() uses
StrLess(a, b) ==
    \E k \in 1..(Len(a) + 1) :
        /\ k - 1 <= Len(b)
        /\ SubSeq(a, 1, k - 1) = SubSeq(b, 1, k - 1)
        /\ \/ k = Len(a) + 1 /\ Len(b) >= k
           \/ /\ k <= Len(a)
              /\ k <= Len(b)
              /\ ListIndex(AsciiOrder, a[k]) < ListIndex(AsciiOrder, b[k])

\* sorted(S) of a collection of distinct str
RECURSIVE sorted(_)
sorted(S) ==
    IF S = {} THEN << >>
    ELSE LET lo == CHOOSE x \in S : \A y \in S \ {x} : StrLess(x, y)
         IN  <<lo>> \o sorted(S \ {lo})

\* df["month"].unique(), as a set
UniqueMonths(df) == {df.rows[i].month : i \in DOMAIN df.rows}

\* the last n elements of a list: list[-n:] for n >= 1
LastN(list, n) == SubSeq(list, IF Len(list) > n THEN Len(list) - n + 1 ELSE 1, Len(list))

\* re.fullmatch(r"\d{4}-\d{2}", s)
IsYearMonth(s) ==
    /\ Len(s) = 7
    /\ \A i \in {1, 2, 3, 4, 6, 7} : IsDigit(s[i])
    /\ s[5] = "-"

\* month_str of a str: a YYYY-MM string is returned as it is; any other string
\* goes to dateutil, and the one the parser rejects is returned as it is (the
\* tables and questions of this model hold YYYY-MM months only)
month_str(s) == IF IsYearMonth(s) THEN s ELSE s

\* the raised exception E, as a return value
Raise(E) == [exc |-> E]

IsExc(x) == DOMAIN x = {"exc"}

\* Series.sum() of the usd column: NaN entries are skipped, no entry gives 0
RECURSIVE SumUsd(_)
SumUsd(rows) ==
    IF rows = << >> THEN 0
    ELSE (IF Head(rows).usd = NaN THEN 0 ELSE Head(rows).usd[1]) + SumUsd(Tail(rows))

\* a / b of two numbers, b # 0: the quotient as the pair <<a, b>>
Quot(a, b) == <<a, b>>

\* df[(df["month"] == m) & (df["account_category"] == c)]
MonthCategory(df, m, c) ==
    DataFrame(df.cols, SelectSeq(df.rows, LAMBDA r : r.month = m /\ r.account_category = c))

(***************************************************************************)
(* revenue_vs_budget_usd.                                                  *)
(***************************************************************************)
\* a plausible slip: the account_category filter forgotten
revenue_vs_budget_usd_any_category(f, month) ==
    LET m == month_str(month)
        a == DataFrame(f.actuals.cols, SelectSeq(f.actuals.rows, LAMBDA r : r.month = m))
        b == DataFrame(f.budget.cols, SelectSeq(f.budget.rows, LAMBDA r : r.month = m))
        a_usd == SumUsd(to_usd(a, f.fx).rows)
        b_usd == SumUsd(to_usd(b, f.fx).rows)
    IN  [month |-> m, actual_usd |-> Num(a_usd), budget_usd |-> Num(b_usd),
         variance_usd |-> Num(a_usd - b_usd),
         variance_pct |-> IF b_usd # 0 THEN Quot(a_usd - b_usd, b_usd) ELSE NaN]

revenue_vs_budget_usd(f, month) ==
    LET m == month_str(month)
        a == MonthCategory(f.actuals, m, CatRevenue)
        b == MonthCategory(f.budget, m, CatRevenue)
        a_usd == SumUsd(to_usd(a, f.fx).rows)
        b_usd == SumUsd(to_usd(b, f.fx).rows)
    IN  [month |-> m, actual_usd |-> Num(a_usd), budget_usd |-> Num(b_usd),
         variance_usd |-> Num(a_usd - b_usd),
         variance_pct |-> IF b_usd # 0 THEN Quot(a_usd - b_usd, b_usd) ELSE NaN]

(***************************************************************************)
(* Snapshots of the metric specifications.  A ledger table is a            *)
(* subsequence of at most MaxLedger rows of a reference ledger (a list of  *)
(* <<month, category, currency>> cells), each row with an amount of        *)
(* Amounts.                                                                *)
(***************************************************************************)
Amounts == {1, 2}

\* the rows of the cells `cells` of the reference ledger `ref`, in its order,
\* with the amounts amt
RECURSIVE LedgerOf(_, _, _)
LedgerOf(ref, cells, amt) ==
    IF cells = {} THEN << >>
    ELSE LET i == CHOOSE x \in cells : \A y \in cells : x <= y
         IN  <<LedgerRow(ref[i][1], ref[i][2], amt[i], ref[i][3])>>
             \o LedgerOf(ref, cells \ {i}, amt)

Ledgers(ref) ==
    UNION {{LedgerOf(ref, cells, amt) : amt \in [cells -> Amounts]} :
           cells \in {c \in SUBSET DOMAIN ref : Cardinality(c) <= MaxLedger}}

\* a rate for every month and currency of the model; USD only; no rate at all
FxFull ==
    << FxRate(M2025_03, "USD", 1), FxRate(M2025_04, "USD", 1), FxRate(M2025_05, "USD", 1),
       FxRate(M2025_06, "USD", 1), FxRate(M2025_05, "EUR", 2), FxRate(M2025_06, "EUR", 2) >>

MetricFx == {FxFull, SubSeq(FxFull, 1, 4), << >>}

(***************************************************************************)
(* Specification of revenue_vs_budget_usd.                                 *)
(***************************************************************************)
RevenueActuals ==
    << <<M2025_06, CatRevenue, "USD">>, <<M2025_05, CatRevenue, "USD">>,
       <<M2025_06, CatRevenue, "EUR">>, <<M2025_06, CatCOGS, "USD">>,
       <<M2025_06, CatRevenue, "USD">> >>

RevenueBudget ==
    << <<M2025_06, CatRevenue, "USD">>, <<M2025_06, CatRevenue, "EUR">>,
       <<M2025_05, CatRevenue, "USD">>, <<M2025_06, CatOpexAdmin, "USD">> >>

InitRevenue ==
    /\ text = << >>
    /\ \E a \in Ledgers(RevenueActuals), b \in Ledgers(RevenueBudget), fx \in MetricFx :
          fin = FinanceData(a, b, fx, << >>)
    /\ arg = None
    /\ op = "init"
    /\ ret = None

RevenueVsBudget ==
    \E month \in {M2025_05, M2025_06} :
        /\ op' = "revenue_vs_budget_usd"
        /\ arg' = month
        /\ ret' = revenue_vs_budget_usd(fin, month)
        /\ UNCHANGED <<text, fin>>

NextRevenue == RevenueVsBudget

SpecRevenue == InitRevenue /\ [][NextRevenue]_vars

(***************************************************************************)
(* C5                                                                      *)
(***************************************************************************)
\* amount times rate of row r, 0 when the FX table has no rate for it
UsdValue(r, fx) ==
    LET hits == RatesFor(r, fx)
    IN  IF hits = {} THEN 0
        ELSE r.amount[1] * fx.rows[CHOOSE h \in hits : TRUE].rate_to_usd[1]

RECURSIVE UsdOfRows(_, _, _)
UsdOfRows(I, df, fx) ==
    IF I = {} THEN 0
    ELSE LET i == CHOOSE x \in I : TRUE
         IN  UsdValue(df.rows[i], fx) + UsdOfRows(I \ {i}, df, fx)

\* the USD sum of the rows of df of month m whose category satisfies the
\* membership in cats
CategoryUsd(df, fx, m, cats) ==
    UsdOfRows({i \in DOMAIN df.rows : df.rows[i].month = m /\ df.rows[i].account_category \in cats},
              df, fx)

\* C5: revenue_vs_budget_usd does not raise; actual_usd and budget_usd are the
\* USD sums of the Revenue rows of the month in Actuals and in Budget,
\* variance_usd is their difference, and variance_pct is variance_usd /
\* budget_usd when budget_usd is not zero and NaN when it is.
C5_RevenueVsBudget ==
    op = "revenue_vs_budget_usd" =>
        LET a == CategoryUsd(fin.actuals, fin.fx, arg, {CatRevenue})
            b == CategoryUsd(fin.budget, fin.fx, arg, {CatRevenue})
        IN  /\ ~IsExc(ret)
            /\ ret.month = arg
            /\ ret.actual_usd = Num(a)
            /\ ret.budget_usd = Num(b)
            /\ ret.variance_usd = Num(a - b)
            /\ b = 0 => ret.variance_pct = NaN
            /\ b # 0 => /\ Len(ret.variance_pct) = 2
                        /\ ret.variance_pct[2] # 0
                        /\ ret.variance_pct[1] * b = (a - b) * ret.variance_pct[2]

\* a month with Revenue and other rows on both sides and a budget that is not
\* zero was compared
C5_Witness ==
    /\ op = "revenue_vs_budget_usd"
    /\ ret.budget_usd # Num(0)
    /\ ret.variance_usd # Num(0)
    /\ \E i \in DOMAIN fin.actuals.rows :
          fin.actuals.rows[i].month = arg /\ fin.actuals.rows[i].account_category = CatCOGS
    /\ \E i \in DOMAIN fin.budget.rows :
          fin.budget.rows[i].month = arg /\ fin.budget.rows[i].account_category = CatOpexAdmin

(***************************************************************************)
(* gross_margin_pct_trend.                                                 *)
(***************************************************************************)
\* longest list of months given to gross_margin_pct_trend
MaxMonths == 2

\* a.pivot_table(index="month", columns="account_category", values="usd",
\* aggfunc="sum").fillna(0.0): one index entry per month of the rows, in
\* ascending order, one column per category of the rows; a cell is the sum of
\* the usd values of its rows that are not NaN, and 0.0 without any
pivot_table(a) ==
    LET months == UniqueMonths(a)
        cats == {a.rows[i].account_category : i \in DOMAIN a.rows}
    IN  [index |-> sorted(months), columns |-> cats,
         val |-> [m \in months |-> [c \in cats |-> SumUsd(MonthCategory(a, m, c).rows)]]]

\* fin.actuals[fin.actuals["month"].isin(months)]
MonthIsIn(df, months) == DataFrame(df.cols, SelectSeq(df.rows, LAMBDA r : r.month \in Range(months)))

\* a plausible slip: COGS / Revenue, the subtraction from Revenue forgotten
gross_margin_pct_trend_cogs_share(f, months) ==
    LET pt == pivot_table(to_usd(MonthIsIn(f.actuals, months), f.fx))
    IN  IF CatRevenue \notin pt.columns
        THEN Raise("AttributeError")
        ELSE DataFrame({"month", "gm_pct"},
                [i \in DOMAIN pt.index |->
                    LET m == pt.index[i]
                        rev == pt.val[m][CatRevenue]
                        cogs == IF CatCOGS \in pt.columns THEN pt.val[m][CatCOGS] ELSE 0
                    IN  [month |-> m, gm_pct |-> IF rev = 0 THEN NaN ELSE Quot(cogs, rev)]])

\* pt.get("Revenue", 0.0) is the float 0.0 when the pivot table has no Revenue
\* column, and 0.0 has no replace method: AttributeError.  Otherwise one row
\* per month of the pivot table, ascending.
gross_margin_pct_trend(f, months) ==
    LET pt == pivot_table(to_usd(MonthIsIn(f.actuals, months), f.fx))
    IN  IF CatRevenue \notin pt.columns
        THEN Raise("AttributeError")
        ELSE DataFrame({"month", "gm_pct"},
                [i \in DOMAIN pt.index |->
                    LET m == pt.index[i]
                        rev == pt.val[m][CatRevenue]
                        cogs == IF CatCOGS \in pt.columns THEN pt.val[m][CatCOGS] ELSE 0
                    IN  [month |-> m, gm_pct |-> IF rev = 0 THEN NaN ELSE Quot(rev - cogs, rev)]])

(***************************************************************************)
(* Specification of gross_margin_pct_trend.                                *)
(***************************************************************************)
MarginActuals ==
    << <<M2025_06, CatRevenue, "USD">>, <<M2025_05, CatRevenue, "USD">>,
       <<M2025_06, CatCOGS, "USD">>, <<M2025_05, CatCOGS, "EUR">>,
       <<M2025_06, CatRevenue, "EUR">>, <<M2025_05, CatOpexAdmin, "USD">> >>

InitMargin ==
    /\ text = << >>
    /\ \E a \in Ledgers(MarginActuals), fx \in MetricFx : fin = FinanceData(a, << >>, fx, << >>)
    /\ arg = None
    /\ op = "init"
    /\ ret = None

GrossMarginPctTrend ==
    \E months \in SeqsUpTo({M2025_04, M2025_05, M2025_06}, MaxMonths) \ {<< >>} :
        /\ op' = "gross_margin_pct_trend"
        /\ arg' = months
        /\ ret' = gross_margin_pct_trend(fin, months)
        /\ UNCHANGED <<text, fin>>

NextMargin == GrossMarginPctTrend

SpecMargin == InitMargin /\ [][NextMargin]_vars

(***************************************************************************)
(* C3, C4                                                                  *)
(***************************************************************************)
\* C3: gross_margin_pct_trend returns one row per requested month, in the
\* order the months were given, and the row of a month without Actuals rows
\* has a NaN gm_pct.
C3_OneRowPerRequestedMonth ==
    op = "gross_margin_pct_trend" =>
        /\ ~IsExc(ret)
        /\ Len(ret.rows) = Len(arg)
        /\ \A i \in DOMAIN ret.rows :
              /\ ret.rows[i].month = arg[i]
              /\ arg[i] \notin UniqueMonths(fin.actuals) => ret.rows[i].gm_pct = NaN

\* a float is a number of the closed interval [0, 1]
InUnitInterval(x) ==
    \/ Len(x) = 1 /\ x[1] \in {0, 1}
    \/ Len(x) = 2 /\ x[2] > 0 /\ 0 <= x[1] /\ x[1] <= x[2]
    \/ Len(x) = 2 /\ x[2] < 0 /\ x[2] <= x[1] /\ x[1] <= 0

StartsWith(s, prefix) == OccursAt(s, prefix, 1)

\* usd.groupby("account_category")["usd"].sum(): the categories of the rows
\* and the sum of each (NaN entries are skipped)
GroupSums(usd) ==
    LET cats == {usd.rows[i].account_category : i \in DOMAIN usd.rows}
    IN  [c \in cats |->
            SumUsd(SelectSeq(usd.rows, LAMBDA r : r.account_category = c))]

\* Series.sort_values(ascending=...): the orders in which the groups g can
\* stand with their sums non-decreasing (ascending) or non-increasing
Arrangements(g, ascending) ==
    {s \in [1..Cardinality(DOMAIN g) -> DOMAIN g] :
        /\ \A i, j \in DOMAIN s : s[i] = s[j] => i = j
        /\ \A i \in DOMAIN s : i < Len(s) =>
              IF ascending THEN g[s[i]] <= g[s[i + 1]] ELSE g[s[i]] >= g[s[i + 1]]}

\* a plausible slip: ascending=False forgotten
opex_breakdown_usd_ascending(f, month) ==
    LET m == month_str(month)
        a == DataFrame(f.actuals.cols,
                SelectSeq(f.actuals.rows,
                          LAMBDA r : r.month = m /\ StartsWith(r.account_category, OpexPrefix)))
        g == GroupSums(to_usd(a, f.fx))
    IN  IF a.rows = << >>
        THEN {DataFrame({"account_category", "usd"}, << >>)}
        ELSE {DataFrame({"account_category", "usd"},
                        [i \in DOMAIN s |-> [account_category |-> s[i], usd |-> Num(g[s[i]])]]) :
              s \in Arrangements(g, TRUE)}

\* The results opex_breakdown_usd can return.  sort_values(ascending=False)
\* uses a sort that is not stable, so categories with equal sums can come in
\* either order: every order with non-increasing sums is a result.
opex_breakdown_usd(f, month) ==
    LET m == month_str(month)
        a == DataFrame(f.actuals.cols,
                SelectSeq(f.actuals.rows,
                          LAMBDA r : r.month = m /\ StartsWith(r.account_category, OpexPrefix)))
        g == GroupSums(to_usd(a, f.fx))
    IN  IF a.rows = << >>
        THEN {DataFrame({"account_category", "usd"}, << >>)}
        ELSE {DataFrame({"account_category", "usd"},
                        [i \in DOMAIN s |-> [account_category |-> s[i], usd |-> Num(g[s[i]])]]) :
              s \in Arrangements(g, FALSE)}

(***************************************************************************)
(* Specification of opex_breakdown_usd.                                    *)
(***************************************************************************)
OpexActuals ==
    << <<M2025_06, CatOpexAdmin, "USD">>, <<M2025_06, CatOpexSales, "USD">>,
       <<M2025_06, CatOpexAdmin, "EUR">>, <<M2025_06, CatRevenue, "USD">>,
       <<M2025_05, CatOpexSales, "USD">>, <<M2025_06, <<"O","p","e","x"," ","I","T">>, "USD">> >>

InitOpex ==
    /\ text = << >>
    /\ \E a \in Ledgers(OpexActuals), fx \in MetricFx : fin = FinanceData(a, << >>, fx, << >>)
    /\ arg = None
    /\ op = "init"
    /\ ret = None

OpexBreakdown ==
    \E month \in {M2025_05, M2025_06} :
        \E out \in opex_breakdown_usd(fin, month) :
            /\ op' = "opex_breakdown_usd"
            /\ arg' = month
            /\ ret' = out
            /\ UNCHANGED <<text, fin>>

NextOpex == OpexBreakdown

SpecOpex == InitOpex /\ [][NextOpex]_vars

(***************************************************************************)
(* C6                                                                      *)
(***************************************************************************)
\* the first five characters of category c are O, p, e, x and the colon
HasOpexPrefix(c) == Len(c) >= 5 /\ \A k \in 1..5 : c[k] = OpexPrefix[k]

\* the categories with the Opex: prefix among the Actuals rows of month m
OpexCategories(f, m) ==
    {f.actuals.rows[i].account_category : i \in
        {j \in DOMAIN f.actuals.rows :
            /\ f.actuals.rows[j].month = m
            /\ HasOpexPrefix(f.actuals.rows[j].account_category)}}

\* C6: opex_breakdown_usd returns a table with the account_category and usd
\* columns and exactly one row per Opex:-prefixed category of the month's
\* Actuals rows, each with the USD sum of that category, in an order of
\* non-increasing usd; without such rows the table is empty.
C6_OpexBreakdown ==
    op = "opex_breakdown_usd" =>
        LET cats == OpexCategories(fin, arg)
        IN  /\ ~IsExc(ret)
            /\ ret.cols = {"account_category", "usd"}
            /\ Len(ret.rows) = Cardinality(cats)
            /\ {ret.rows[i].account_category : i \in DOMAIN ret.rows} = cats
            /\ \A i \in DOMAIN ret.rows :
                  /\ HasOpexPrefix(ret.rows[i].account_category)
                  /\ ret.rows[i].usd =
                        Num(CategoryUsd(fin.actuals, fin.fx, arg, {ret.rows[i].account_category}))
                  /\ i < Len(ret.rows) => ret.rows[i].usd[1] >= ret.rows[i + 1].usd[1]

\* two Opex categories of the month, one summed over two rows, came out with
\* the larger sum first, and rows of other categories and months stayed out
C6_Witness ==
    /\ op = "opex_breakdown_usd"
    /\ Len(fin.actuals.rows) = 4
    /\ Len(ret.rows) = 2
    /\ ret.rows[1] = [account_category |-> CatOpexAdmin, usd |-> Num(5)]
    /\ ret.rows[2].usd = Num(2)

(***************************************************************************)
(* ebitda_by_month and cash_runway_now.                                    *)
(***************************************************************************)
\* pt[cols].sum(axis=1) for one row of the pivot table
RECURSIVE SumColumns(_, _)
SumColumns(row, cols) ==
    IF cols = {} THEN 0
    ELSE LET c == CHOOSE x \in cols : TRUE
         IN  row[c] + SumColumns(row, cols \ {c})

\* pt[["EBITDA", "Opex_total", "Revenue", "COGS"]] raises KeyError when the
\* pivot table has no Revenue or no COGS column, that is when no Actuals row
\* has that category.  Otherwise one row per month of Actuals, ascending.
ebitda_by_month(f) ==
    LET pt == pivot_table(to_usd(f.actuals, f.fx))
        opex_cols == {c \in pt.columns : StartsWith(c, OpexPrefix)}
    IN  IF ~({CatRevenue, CatCOGS} \subseteq pt.columns)
        THEN Raise("KeyError")
        ELSE DataFrame({"month", "EBITDA", "Opex_total", "Revenue", "COGS"},
                [i \in DOMAIN pt.index |->
                    LET row == pt.val[pt.index[i]]
                        Opex_total == SumColumns(row, opex_cols)
                    IN  [month |-> pt.index[i],
                         EBITDA |-> Num(row[CatRevenue] - row[CatCOGS] - Opex_total),
                         Opex_total |-> Num(Opex_total),
                         Revenue |-> Num(row[CatRevenue]),
                         COGS |-> Num(row[CatCOGS])]])

\* np.inf
Inf == "inf"

ProfitableNote == "Profitable over the last 3 months (no net burn). Runway: N/A"

\* np.maximum(0.0, -e3.values) summed: the sum of the losses of the months
\* `months` in the EBITDA table e
RECURSIVE SumNetBurn(_, _)
SumNetBurn(e, months) ==
    IF months = << >> THEN 0
    ELSE LET r == CHOOSE x \in Range(e.rows) : x.month = Head(months)
         IN  (IF -r.EBITDA[1] > 0 THEN -r.EBITDA[1] ELSE 0) + SumNetBurn(e, Tail(months))

\* the dict cash_runway_now returns, given the EBITDA rows it averages over
RunwayReport(f, e, months) ==
    LET latest == sorted(UniqueMonths(f.cash))[Cardinality(UniqueMonths(f.cash))]
        cash_usd == (CHOOSE i \in DOMAIN f.cash.rows :
                        /\ f.cash.rows[i].month = latest
                        /\ \A j \in 1..(i - 1) : f.cash.rows[j].month # latest)
        cash == f.cash.rows[cash_usd].cash_usd
        burn == SumNetBurn(e, months)
        runway == Quot(cash[1] * Len(months), burn)
    IN  [as_of |-> latest, cash_usd |-> cash,
         avg_net_burn_usd |-> Quot(burn, Len(months)),
         runway_months |-> IF burn = 0 THEN Inf ELSE runway,
         note |-> IF burn = 0 THEN ProfitableNote ELSE <<"~", runway, " months of runway">>]

\* a plausible slip: the burn averaged over every month of Actuals
cash_runway_now_all_months(f) ==
    IF f.cash.rows = << >>
    THEN Raise("IndexError")
    ELSE LET e == ebitda_by_month(f)
         IN  IF IsExc(e) THEN e
             ELSE RunwayReport(f, e, sorted(UniqueMonths(f.actuals)))

\* latest_month of an empty Cash table raises IndexError (sorted([])[-1]);
\* ebitda_by_month can raise KeyError; otherwise the burn is averaged over the
\* last 3 months of Actuals: avg_burn = mean(net_burn), runway = cash / avg
cash_runway_now(f) ==
    IF f.cash.rows = << >>
    THEN Raise("IndexError")
    ELSE LET e == ebitda_by_month(f)
         IN  IF IsExc(e) THEN e
             ELSE RunwayReport(f, e, LastN(sorted(UniqueMonths(f.actuals)), 3))

(***************************************************************************)
(* Specification of ebitda_by_month and cash_runway_now.                   *)
(***************************************************************************)
EbitdaActuals ==
    << <<M2025_05, CatRevenue, "USD">>, <<M2025_06, CatRevenue, "USD">>,
       <<M2025_03, CatCOGS, "USD">>, <<M2025_04, CatRevenue, "USD">>,
       <<M2025_06, CatCOGS, "USD">>, <<M2025_04, CatCOGS, "USD">>,
       <<M2025_05, CatCOGS, "EUR">>, <<M2025_06, CatOpexAdmin, "USD">>,
       <<M2025_03, CatOpexAdmin, "USD">>, <<M2025_05, CatOpexSales, "EUR">> >>

CashPoint(month, cash_usd) == [month |-> month, cash_usd |-> Num(cash_usd)]

CashTables ==
    { << >>, <<CashPoint(M2025_05, 9)>>, <<CashPoint(M2025_06, 6), CashPoint(M2025_05, 9)>> }

InitEbitda ==
    /\ text = << >>
    /\ \E a \in Ledgers(EbitdaActuals), fx \in MetricFx \ {<< >>}, cash \in CashTables :
          fin = FinanceData(a, << >>, fx, cash)
    /\ arg = None
    /\ op = "init"
    /\ ret = None

EbitdaByMonth ==
    /\ op' = "ebitda_by_month"
    /\ ret' = ebitda_by_month(fin)
    /\ UNCHANGED <<text, fin, arg>>

CashRunwayNow ==
    /\ op' = "cash_runway_now"
    /\ ret' = cash_runway_now(fin)
    /\ UNCHANGED <<text, fin, arg>>

NextEbitda == EbitdaByMonth \/ CashRunwayNow

SpecEbitda == InitEbitda /\ [][NextEbitda]_vars

(***************************************************************************)
(* C7, C8                                                                  *)
(***************************************************************************)
\* the Opex:-prefixed categories of Actuals
AllOpexCategories(f) ==
    {c \in {f.actuals.rows[i].account_category : i \in DOMAIN f.actuals.rows} :
        HasOpexPrefix(c)}

\* Revenue - COGS - Opex of month m, from the rows of Actuals
MonthEbitda(f, m) ==
    CategoryUsd(f.actuals, f.fx, m, {CatRevenue}) - CategoryUsd(f.actuals, f.fx, m, {CatCOGS})
        - CategoryUsd(f.actuals, f.fx, m, AllOpexCategories(f))

\* C7: ebitda_by_month returns, for every snapshot, one row per month of
\* Actuals in ascending month order, with the fields month, EBITDA,
\* Opex_total, Revenue and COGS, EBITDA = Revenue - COGS - Opex_total, and a
\* category without rows counting as 0.
C7_EbitdaByMonth ==
    op = "ebitda_by_month" =>
        /\ ~IsExc(ret)
        /\ ret.cols = {"month", "EBITDA", "Opex_total", "Revenue", "COGS"}
        /\ {ret.rows[i].month : i \in DOMAIN ret.rows} = UniqueMonths(fin.actuals)
        /\ \A i \in DOMAIN ret.rows :
              /\ i < Len(ret.rows) => StrLess(ret.rows[i].month, ret.rows[i + 1].month)
              /\ ret.rows[i].Revenue =
                    Num(CategoryUsd(fin.actuals, fin.fx, ret.rows[i].month, {CatRevenue}))
              /\ ret.rows[i].COGS =
                    Num(CategoryUsd(fin.actuals, fin.fx, ret.rows[i].month, {CatCOGS}))
              /\ ret.rows[i].Opex_total =
                    Num(CategoryUsd(fin.actuals, fin.fx, ret.rows[i].month, AllOpexCategories(fin)))
              /\ ret.rows[i].EBITDA[1] =
                    ret.rows[i].Revenue[1] - ret.rows[i].COGS[1] - ret.rows[i].Opex_total[1]

\* the months of Actuals with fewer than 3 later months of Actuals
LatestThree(f) ==
    {m \in UniqueMonths(f.actuals) :
        Cardinality({n \in UniqueMonths(f.actuals) : StrLess(m, n)}) < 3}

RECURSIVE TotalBurn(_, _)
TotalBurn(f, months) ==
    IF months = {} THEN 0
    ELSE LET m == CHOOSE x \in months : TRUE
             e == MonthEbitda(f, m)
         IN  (IF e < 0 THEN -e ELSE 0) + TotalBurn(f, months \ {m})

\* C8: when cash_runway_now returns, as_of is the latest month of Cash,
\* avg_net_burn_usd is the mean of max(0, -EBITDA) over the 3 latest months of
\* Actuals and is not negative; runway_months is infinite with the fixed note
\* exactly when avg_net_burn_usd is 0, and cash_usd / avg_net_burn_usd with
\* the "~X months of runway" note otherwise.
C8_CashRunway ==
    (op = "cash_runway_now" /\ ~IsExc(ret)) =>
        LET burn == TotalBurn(fin, LatestThree(fin))
            k == Cardinality(LatestThree(fin))
            avg == ret.avg_net_burn_usd
            run == ret.runway_months
        IN  /\ \E i \in DOMAIN fin.cash.rows :
                  fin.cash.rows[i].month = ret.as_of /\ fin.cash.rows[i].cash_usd = ret.cash_usd
            /\ \A i \in DOMAIN fin.cash.rows :
                  fin.cash.rows[i].month = ret.as_of \/ StrLess(fin.cash.rows[i].month, ret.as_of)
            /\ avg[2] > 0 /\ avg[1] >= 0
            /\ avg[1] * k = burn * avg[2]
            /\ (run = Inf) <=> (avg[1] = 0)
            /\ (ret.note = ProfitableNote) <=> (avg[1] = 0)
            /\ avg[1] # 0 =>
                  /\ run[2] # 0
                  /\ run[1] * avg[1] = ret.cash_usd[1] * avg[2] * run[2]
                  /\ ret.note = <<"~", run, " months of runway">>

\* four months of Actuals, the earliest with a loss that the average leaves
\* out, and a net burn over the latest three
C8_Witness ==
    /\ op = "cash_runway_now"
    /\ ~IsExc(ret)
    /\ Cardinality(UniqueMonths(fin.actuals)) = 4
    /\ MonthEbitda(fin, M2025_03) < 0
    /\ ret.avg_net_burn_usd[1] > 0
    /\ ret.runway_months # Inf
    /\ Len(fin.cash.rows) = 2

(***************************************************************************)
(* parse_last_n_months.                                                    *)
(***************************************************************************)
KwLast == <<"l","a","s","t">>

KwMonth == <<"m","o","n","t","h">>

\* (one|two|...|twelve); no word is the beginning of another, so at most one
\* alternative matches at a position
NumberWords ==
    << <<"o","n","e">>, <<"t","w","o">>, <<"t","h","r","e","e">>, <<"f","o","u","r">>,
       <<"f","i","v","e">>, <<"s","i","x">>, <<"s","e","v","e","n">>, <<"e","i","g","h","t">>,
       <<"n","i","n","e">>, <<"t","e","n">>, <<"e","l","e","v","e","n">>,
       <<"t","w","e","l","v","e">> >>

\* the last position of the longest run of digits that starts at i: what a
\* greedy \d+ consumes
DigitRunEnd(t, i) ==
    CHOOSE j \in (i - 1)..Len(t) :
        /\ \A k \in i..j : IsDigit(t[k])
        /\ (j = Len(t) \/ ~IsDigit(t[j + 1]))

\* \s+months? matches right after position j ("month" suffices, the s is
\* optional)
SpaceThenMonth(t, j) ==
    LET k == SpaceRunEnd(t, j + 1)
    IN  k > j /\ OccursAt(t, KwMonth, k + 1)

\* last\s+(\d+)\s+months? matches starting at position i
LastDigitsAt(t, i) ==
    /\ OccursAt(t, KwLast, i)
    /\ LET a == SpaceRunEnd(t, i + 4)
           b == DigitRunEnd(t, a + 1)
       IN  a > i + 3 /\ b > a /\ SpaceThenMonth(t, b)

\* last\s+(one|...|twelve)\s+months? matches starting at position i with the
\* w-th number word
LastWordAt(t, i, w) ==
    /\ OccursAt(t, KwLast, i)
    /\ LET a == SpaceRunEnd(t, i + 4)
       IN  /\ a > i + 3
           /\ OccursAt(t, NumberWords[w], a + 1)
           /\ SpaceThenMonth(t, a + Len(NumberWords[w]))

\* a plausible slip: the spelled-out numbers forgotten
parse_last_n_months_digits_only(s) ==
    LET t == Lower(s)
        m == Leftmost({i \in 1..Len(t) : LastDigitsAt(t, i)})
    IN  IF m # 0
        THEN LET a == SpaceRunEnd(t, m + 4)
             IN  Num(ParseInt(SubSeq(t, a + 1, DigitRunEnd(t, a + 1))))
        ELSE None

\* the int found, as Num(n), or None
parse_last_n_months(s) ==
    LET t == Lower(s)
        m == Leftmost({i \in 1..Len(t) : LastDigitsAt(t, i)})
        m2 == Leftmost({i \in 1..Len(t) : \E w \in DOMAIN NumberWords : LastWordAt(t, i, w)})
    IN  IF m # 0
        THEN LET a == SpaceRunEnd(t, m + 4)
             IN  Num(ParseInt(SubSeq(t, a + 1, DigitRunEnd(t, a + 1))))
        ELSE IF m2 # 0
        THEN Num(CHOOSE w \in DOMAIN NumberWords : LastWordAt(t, m2, w))
        ELSE None

(***************************************************************************)
(* respond.                                                                *)
(***************************************************************************)
\* str.endswith
EndsWith(s, suffix) == OccursAt(s, suffix, Len(s) - Len(suffix) + 1)

\* s.split(sep, 1)[1]: what follows the first sep in s
AfterFirst(s, sep) ==
    SubSeq(s, (CHOOSE i \in DOMAIN s : s[i] = sep /\ \A j \in 1..(i - 1) : s[j] # sep) + 1, Len(s))

\* x * 100 of a float
Times100(x) ==
    IF x = NaN THEN NaN
    ELSE IF Len(x) = 2 THEN Quot(x[1] * 100, x[2]) ELSE Num(x[1] * 100)

\* a plausible slip: candidates[0] in the place of candidates[-1]
ResolveMonth_first_candidate(t, f) ==
    LET m == extract_month_from_text(t)
        months == sorted(UniqueMonths(f.actuals))
    IN  IF m # None /\ ~StartsWith(m, PartialYear)
        THEN [month |-> m]
        ELSE IF months = << >>
        THEN Raise("IndexError")
        ELSE IF m # None /\ StartsWith(m, PartialYear) /\ Len(m) = 7
        THEN LET mon == AfterFirst(m, "-")
                 candidates == SelectSeq(months, LAMBDA x : EndsWith(x, <<"-">> \o mon))
             IN  [month |-> IF candidates # << >> THEN candidates[1]
                            ELSE months[Len(months)]]
        ELSE [month |-> months[Len(months)]]

\* the month the revenue and the opex branch hand to their metric, as
\* [month |-> m], or the exception raised on the way: sorted(...)[-1] and
\* months[-1] of an empty Actuals table raise IndexError
ResolveMonth(t, f) ==
    LET m == extract_month_from_text(t)
        months == sorted(UniqueMonths(f.actuals))
    IN  IF m # None /\ ~StartsWith(m, PartialYear)
        THEN [month |-> m]
        ELSE IF months = << >>
        THEN Raise("IndexError")
        ELSE IF m # None /\ StartsWith(m, PartialYear) /\ Len(m) = 7
        THEN LET mon == AfterFirst(m, "-")
                 candidates == SelectSeq(months, LAMBDA x : EndsWith(x, <<"-">> \o mon))
             IN  [month |-> IF candidates # << >> THEN candidates[Len(candidates)]
                            ELSE months[Len(months)]]
        ELSE [month |-> months[Len(months)]]

\* fig = None: no figure, as a record so that it compares with figures
NoFigure == [kind |-> "None"]

\* a matplotlib figure: which plot, its title and what it draws
Figure(kind, title, data) == [kind |-> kind, title |-> title, data |-> data]

\* the tuple respond returns.  The message is the sequence of its lines, a
\* line the sequence of its literal parts and of the values formatted into
\* it; the bullets and the rounding of the number formats are left out.
Answer(msg, fig) == [text |-> msg, fig |-> fig]

\* help_txt, by its lines (the four sample questions in one)
HelpText ==
    << <<"I can answer questions like:">>, <<"(sample questions)">>,
       <<"Try including a month (e.g., 'June 2025') or a relative window (e.g., 'last 3 months').">> >>

RespondRevenue(t, f) ==
    LET m == ResolveMonth(t, f)
    IN  IF IsExc(m) THEN m
        ELSE LET rvb == revenue_vs_budget_usd(f, m.month)
             IN  Answer(<< <<"Revenue vs Budget for ", rvb.month, ":">>,
                           <<"Actual: $", rvb.actual_usd>>,
                           <<"Budget: $", rvb.budget_usd>>,
                           <<"Variance: $", rvb.variance_usd, " (", Times100(rvb.variance_pct), "%)">> >>,
                        Figure("revenue_vs_budget_bar", <<"Revenue vs Budget - ", rvb.month>>,
                               <<rvb.actual_usd, rvb.budget_usd>>))

RespondGrossMargin(t, f) ==
    LET parsed == parse_last_n_months(t)
        n == IF parsed = None \/ parsed = Num(0) THEN 3 ELSE parsed[1]
        months == LastN(sorted(UniqueMonths(f.actuals)), n)
        df == gross_margin_pct_trend(f, months)
    IN  IF IsExc(df) THEN df
        ELSE Answer(<< <<"Gross Margin % (last ", Num(n), " months):">> >>
                    \o [i \in DOMAIN df.rows |->
                           <<df.rows[i].month, ": ", Times100(df.rows[i].gm_pct), "%">>],
                    Figure("gm_trend_line", <<"Gross Margin % - last ", Num(n), " months">>, df.rows))

\* RespondOpex without the short-circuit on an empty breakdown
RespondOpex_always_chart(t, f) ==
    LET m == ResolveMonth(t, f)
    IN  IF IsExc(m) THEN {m}
        ELSE {Answer(<< <<"Opex breakdown - ", m.month, ":">> >>
                     \o [i \in DOMAIN df.rows |->
                            <<AfterFirst(df.rows[i].account_category, ":"), ": $",
                              df.rows[i].usd>>],
                     Figure("opex_breakdown_bar", <<"Opex Breakdown - ", m.month>>, df.rows)) :
              df \in opex_breakdown_usd(f, m.month)}

\* one answer per order opex_breakdown_usd can return
RespondOpex(t, f) ==
    LET m == ResolveMonth(t, f)
    IN  IF IsExc(m) THEN {m}
        ELSE {IF df.rows = << >>
              THEN Answer(<< <<"No Opex data for ", m.month, ".">> >>, NoFigure)
              ELSE Answer(<< <<"Opex breakdown - ", m.month, ":">> >>
                          \o [i \in DOMAIN df.rows |->
                                 <<AfterFirst(df.rows[i].account_category, ":"), ": $",
                                   df.rows[i].usd>>],
                          Figure("opex_breakdown_bar", <<"Opex Breakdown - ", m.month>>, df.rows)) :
              df \in opex_breakdown_usd(f, m.month)}

RespondCashRunway(f) ==
    LET cr == cash_runway_now(f)
        last == LastN(sorted(UniqueMonths(f.cash)), 6)
    IN  IF IsExc(cr) THEN cr
        ELSE Answer(<< <<"Cash runway as of ", cr.as_of, ":">>,
                       <<"Cash: $", cr.cash_usd>>,
                       <<"Avg net burn (last 3 mo): $", cr.avg_net_burn_usd>>,
                       <<"Runway: ", IF cr.runway_months = Inf THEN <<"inf">>
                                     ELSE <<cr.runway_months, " months">> >>,
                       <<cr.note>> >>,
                    Figure("cash_trend", "Cash Trend - last 6 months", MonthIsIn(f.cash, last).rows))

RespondEbitda(f) ==
    LET e == ebitda_by_month(f)
    IN  IF IsExc(e) THEN e
        ELSE LET last6 == LastN(e.rows, 6)
             IN  Answer(<< <<"EBITDA (last 6 months):">> >>
                        \o [i \in DOMAIN last6 |-> <<last6[i].month, ": $", last6[i].EBITDA>>],
                        Figure("ebitda_line", "EBITDA - last 6 months", last6))

\* The results respond(text, fin) can have: an Answer, or the exception that
\* escapes it (respond catches none).
respond(s, f) ==
    LET intent == classify_intent(s)
        t == Strip(s)
    IN  CASE intent = "revenue_vs_budget" -> {RespondRevenue(t, f)}
          [] intent = "gross_margin_trend" -> {RespondGrossMargin(t, f)}
          [] intent = "opex_breakdown" -> RespondOpex(t, f)
          [] intent = "cash_runway" -> {RespondCashRunway(f)}
          [] intent = "ebitda_trend" -> {RespondEbitda(f)}
          [] OTHER -> {Answer(HelpText, NoFigure)}


(***************************************************************************)
(* Specification of respond over the questions of RespondPhrases and      *)
(* RespondVocab and the snapshots of RespondSnapshots.                     *)
(***************************************************************************)
MaxPhrases == 1

\* what a question opens with: nothing, one phrase for each intent, a word
\* that no rule knows
RespondPhrases ==
    { << >>,
      <<"r","e","v","e","n","u","e"," ","v","s"," ","b","u","d","g","e","t">>,
      <<"G","r","o","s","s"," ","M","a","r","g","i","n">>,
      <<"o","p","e","x">>, <<"r","u","n","w","a","y">>, <<"E","B","I","T","D","A">>,
      <<"h","i">> }

\* the months and windows a question can go on with
RespondVocab ==
    { <<" ","f","o","r"," ","J","u","n","e">>, <<" ","J","u","n"," ","2","0","2","5">>,
      <<" ","2","0","2","5","-","0","5">>,
      <<" ","l","a","s","t"," ","2"," ","m","o","n","t","h","s">>,
      <<" ","l","a","s","t"," ","f","o","u","r"," ","m","o","n","t","h">>,
      <<" ","l","a","s","t"," ","0"," ","m","o","n","t","h","s">> }

M2024_06 == <<"2","0","2","4","-","0","6">>

\* two Junes, a month without revenue, and two Opex categories that tie in
\* 2025-05
RespondActuals ==
    << <<M2025_06, CatRevenue, "EUR">>, <<M2024_06, CatOpexAdmin, "USD">>,
       <<M2025_05, CatRevenue, "USD">>, <<M2025_06, CatCOGS, "USD">>,
       <<M2025_05, CatOpexSales, "USD">>, <<M2025_05, CatOpexAdmin, "USD">> >>

RespondAmounts == <<2, 1, 2, 1, 1, 1>>

RespondFx == FxFull \o <<FxRate(M2024_06, "USD", 1)>>

\* seven months, more than the six of the EBITDA window, not in order
LongMonths ==
    << M2025_04, <<"2","0","2","4","-","1","2">>, M2025_06, <<"2","0","2","5","-","0","1">>,
       M2025_03, <<"2","0","2","5","-","0","2">>, M2025_05 >>

\* a snapshot with Revenue in six of the seven months and COGS in the other
LongSnapshot ==
    FinanceData([i \in DOMAIN LongMonths |->
                    LedgerRow(LongMonths[i], IF i = 2 THEN CatCOGS ELSE CatRevenue, 1, "USD")],
                <<LedgerRow(M2025_06, CatRevenue, 2, "USD")>>,
                [i \in DOMAIN LongMonths |-> FxRate(LongMonths[i], "USD", 1)],
                <<CashPoint(M2025_06, 6), CashPoint(M2025_05, 9)>>)

RespondSnapshots ==
    { FinanceData(LedgerOf(RespondActuals, cells, RespondAmounts),
                  <<LedgerRow(M2025_06, CatRevenue, 2, "USD")>>, RespondFx, cash) :
      cells \in {c \in SUBSET DOMAIN RespondActuals : Cardinality(c) <= MaxLedger},
      cash \in CashTables }
    \cup {LongSnapshot}

InitRespond ==
    /\ text \in {p \o m : p \in RespondPhrases, m \in Concats(RespondVocab, MaxPhrases)}
    /\ fin \in RespondSnapshots
    /\ arg = None
    /\ op = "init"
    /\ ret = None

Respond ==
    /\ op' = "respond"
    /\ \E out \in respond(text, fin) : ret' = out
    /\ UNCHANGED <<text, fin, arg>>

NextRespond == Respond

SpecRespond == InitRespond /\ [][NextRespond]_vars

(***************************************************************************)
(* C10                                                                     *)
(***************************************************************************)
\* C10: respond(text, fin) never raises: for every question and every
\* snapshot, empty tables included, it returns a text answer.
C10_RespondNeverRaises ==
    op = "respond" => ~IsExc(ret)


(***************************************************************************)
(* C11                                                                     *)
(***************************************************************************)
\* the plot each intent draws
ChartKinds ==
    [ revenue_vs_budget |-> "revenue_vs_budget_bar", gross_margin_trend |-> "gm_trend_line",
      opex_breakdown |-> "opex_breakdown_bar", cash_runway |-> "cash_trend",
      ebitda_trend |-> "ebitda_line" ]

\* Actuals has a row of an Opex: category in month m
HasOpexRows(f, m) ==
    \E i \in DOMAIN f.actuals.rows :
        f.actuals.rows[i].month = m /\ HasOpexPrefix(f.actuals.rows[i].account_category)

\* C11: whenever respond returns, it returns one text and at most one chart;
\* there is no chart exactly when the intent is help or the intent is
\* opex_breakdown and the month the answer names has no Opex rows, and then
\* the text is the "No Opex data for <month>." message; in every other case
\* the chart is of the kind of the intent.
C11_ChartUnlessHelpOrNoOpex ==
    (op = "respond" /\ ~IsExc(ret)) =>
        LET intent == classify_intent(text)
        IN  /\ DOMAIN ret = {"text", "fig"}
            /\ intent = "help" => ret = Answer(HelpText, NoFigure)
            /\ intent = "opex_breakdown" =>
                  LET m == ret.text[1][2]
                  IN  /\ IsYearMonth(m)
                      /\ (ret.fig = NoFigure) <=> ~HasOpexRows(fin, m)
                      /\ ret.fig = NoFigure => ret.text = << <<"No Opex data for ", m, ".">> >>
            /\ intent \notin {"help", "opex_breakdown"} => ret.fig # NoFigure
            /\ ret.fig # NoFigure => ret.fig.kind = ChartKinds[intent]

\* an opex question about a month without Opex rows, answered without a chart
C11_Witness ==
    /\ op = "respond"
    /\ ~IsExc(ret)
    /\ classify_intent(text) = "opex_breakdown"
    /\ fin.actuals.rows # << >>
    /\ ret.fig = NoFigure
    /\ ret.text[1][1] = "No Opex data for "


(***************************************************************************)
(* C12                                                                     *)
(***************************************************************************)
\* the question is answered by one of the two month-based branches
MonthBased == classify_intent(text) \in {"revenue_vs_budget", "opex_breakdown"}

\* the month the answer's first line names: the month handed to the metric
AnsweredMonth == ret.text[1][2]

\* x is the latest of the months S
LatestOf(x, S) == x \in S /\ \A y \in S : y = x \/ StrLess(y, x)

\* the months of Actuals with the month number of the partial marker m
SameMonthNumber(f, m) == {x \in UniqueMonths(f.actuals) : SubSeq(x, 6, 7) = SubSeq(m, 6, 7)}

\* C12 as stated: for a partial marker the resolved month always has the month
\* number the question named (and is the latest such month of Actuals).
C12_PartialKeepsMonthNumber ==
    (op = "respond" /\ ~IsExc(ret) /\ MonthBased) =>
        LET m == extract_month_from_text(Strip(text))
        IN  (m # None /\ StartsWith(m, PartialYear)) =>
                LatestOf(AnsweredMonth, SameMonthNumber(fin, m))

\* C12, amended: whenever a month-based branch returns, the month handed to
\* the metric is a YYYY-MM string: the explicit month of the text unchanged;
\* for a partial marker the latest month of Actuals with that month number
\* if there is one and the latest month of Actuals otherwise; the latest
\* month of Actuals when the text names no month.
C12_MonthResolution ==
    (op = "respond" /\ ~IsExc(ret) /\ MonthBased) =>
        LET m == extract_month_from_text(Strip(text))
            present == UniqueMonths(fin.actuals)
        IN  /\ IsYearMonth(AnsweredMonth)
            /\ IF m = None THEN LatestOf(AnsweredMonth, present)
               ELSE IF ~StartsWith(m, PartialYear) THEN AnsweredMonth = m
               ELSE IF SameMonthNumber(fin, m) # {}
               THEN LatestOf(AnsweredMonth, SameMonthNumber(fin, m))
               ELSE LatestOf(AnsweredMonth, present)

\* "for June" asked of Actuals with two Junes: the later
\* June is answered
C12_Witness ==
    /\ op = "respond"
    /\ ~IsExc(ret)
    /\ MonthBased
    /\ PartialYear \o <<"-","0","6">> = extract_month_from_text(Strip(text))
    /\ {M2024_06, M2025_06} \subseteq UniqueMonths(fin.actuals)
    /\ AnsweredMonth = M2025_06


(***************************************************************************)
(* C13                                                                     *)
(***************************************************************************)
\* in t, "last" starts at i and is followed by whitespace, the digits d,
\* whitespace and "month"
DigitWindowAt(t, i, d) ==
    /\ OccursAt(t, KwLast, i)
    /\ Len(d) >= 1 /\ \A k \in DOMAIN d : IsDigit(d[k])
    /\ \E a \in (i + 4)..Len(t) :
          /\ \A k \in (i + 4)..a : IsSpace(t[k])
          /\ OccursAt(t, d, a + 1)
          /\ \E c \in (a + Len(d) + 1)..Len(t) :
                /\ \A k \in (a + Len(d) + 1)..c : IsSpace(t[k])
                /\ OccursAt(t, KwMonth, c + 1)

\* the same with the spelled-out number word in the place of the digits
WordWindowAt(t, i, word) ==
    /\ OccursAt(t, KwLast, i)
    /\ \E a \in (i + 4)..Len(t) :
          /\ \A k \in (i + 4)..a : IsSpace(t[k])
          /\ OccursAt(t, word, a + 1)
          /\ \E c \in (a + Len(word) + 1)..Len(t) :
                /\ \A k \in (a + Len(word) + 1)..c : IsSpace(t[k])
                /\ OccursAt(t, KwMonth, c + 1)

\* <<i, N>> for every "last N months" of t, N in digits
DigitWindows(t) ==
    LET digits == {k \in 1..Len(t) : IsDigit(t[k])}
    IN  UNION {{<<i, ParseInt(SubSeq(t, g[1], g[2]))>> :
                   g \in {h \in digits \X digits :
                             h[1] <= h[2] /\ DigitWindowAt(t, i, SubSeq(t, h[1], h[2]))}} :
               i \in {j \in 1..Len(t) : OccursAt(t, KwLast, j)}}

\* <<i, N>> for every "last N months" of t, N spelled out
WordWindows(t) ==
    {h \in {j \in 1..Len(t) : OccursAt(t, KwLast, j)} \X (1..12) :
        WordWindowAt(t, h[1], NumberWords[h[2]])}

\* v is the window of the leftmost hit of H
IsLeftmostWindow(v, H) ==
    \E h \in H : Num(h[2]) = v /\ \A g \in H : h[1] <= g[1]

\* parse_last_n_months finds what the text asks for
WindowParsed ==
    LET t == Lower(Strip(text))
        n == parse_last_n_months(Strip(text))
        D == DigitWindows(t)
        W == WordWindows(t)
    IN  IF D # {} THEN IsLeftmostWindow(n, D)
        ELSE IF W # {} THEN IsLeftmostWindow(n, W)
        ELSE n = None

\* the months of the lines that follow the heading of the answer
ReportedMonths == [k \in 1..(Len(ret.text) - 1) |-> ret.text[k + 1][1]]

\* the answer reports the n latest months of Actuals (all of them when there
\* are fewer), in ascending order
ReportsLatest(n) ==
    LET present == UniqueMonths(fin.actuals)
        shown == ReportedMonths
    IN  /\ Len(shown) = IF Cardinality(present) < n THEN Cardinality(present) ELSE n
        /\ \A k \in DOMAIN shown : shown[k] \in present
        /\ \A k, l \in DOMAIN shown : k < l => StrLess(shown[k], shown[l])
        /\ \A x \in present \ Range(shown) : \A k \in DOMAIN shown : StrLess(x, shown[k])

\* the windows of the two trend answers, where a parsed window of 0 means
\* whenZero months
WindowsReported(whenZero) ==
    LET n == parse_last_n_months(Strip(text))
        N == IF n = None THEN 3 ELSE IF n = Num(0) THEN whenZero ELSE n[1]
        intent == classify_intent(text)
    IN  /\ intent = "gross_margin_trend" =>
              /\ ret.text[1] = <<"Gross Margin % (last ", Num(N), " months):">>
              /\ ReportsLatest(N)
        /\ intent = "ebitda_trend" =>
              /\ ret.text[1] = <<"EBITDA (last 6 months):">>
              /\ ReportsLatest(6)

\* C13 as stated: parse_last_n_months returns the N of "last N months" (digits
\* or one..twelve) and None otherwise; the gross margin answer names and
\* reports the N latest months of Actuals, N the parsed window, or 3 when
\* there is none; the EBITDA answer always reports the latest 6 months.
C13_WindowAsAsked ==
    op = "respond" => (WindowParsed /\ (~IsExc(ret) => WindowsReported(0)))

\* C13, amended: as above, but a parsed window of 0 counts as absent (N = 3),
\* and an answer reports all the months of Actuals when there are fewer than
\* its window.
C13_WindowOrDefault ==
    op = "respond" => (WindowParsed /\ (~IsExc(ret) => WindowsReported(3)))

\* "last 2 months" of a gross margin over at least three months of Actuals:
\* the two latest are reported
C13_Witness ==
    /\ op = "respond"
    /\ ~IsExc(ret)
    /\ classify_intent(text) = "gross_margin_trend"
    /\ Num(2) = parse_last_n_months(Strip(text))
    /\ Cardinality(UniqueMonths(fin.actuals)) >= 3
    /\ Len(ReportedMonths) = 2


(***************************************************************************)
(* The UI session of app_ui: st.session_state across the reruns of the     *)
(* script, one rerun per press of Ask or Export.                           *)
(*   arg  : st.session_state (last_answer_text, last_answer_img)           *)
(*   text : q, the question in the text input                              *)
(*   ret  : history: what respond returned or raised, one entry per call   *)
(***************************************************************************)
MaxAsks == 2

\* last_answer_img = None, as a record so that it compares with images
NoImage == [bytes |-> "None"]

\* fig.savefig(buf, format='png', ...); buf.getvalue()
Png(fig) == [png |-> fig]

SessionState(last_answer_text, last_answer_img) ==
    [last_answer_text |-> last_answer_text, last_answer_img |-> last_answer_img]

SessionQuestions ==
    { << >>, <<" ">>, <<"o","p","e","x">>, <<"E","B","I","T","D","A">>,
      <<"G","r","o","s","s"," ","M","a","r","g","i","n">>, <<"h","i">> }

\* the snapshot of seven months without Opex, and snapshots with no Actuals,
\* with Opex only, and with Revenue, COGS and Opex
SessionSnapshots ==
    {LongSnapshot} \cup
    { FinanceData(LedgerOf(RespondActuals, cells, RespondAmounts),
                  <<LedgerRow(M2025_06, CatRevenue, 2, "USD")>>, RespondFx, << >>) :
      cells \in {{}, {2, 5, 6}, {1, 3, 4, 5}} }

InitSession ==
    /\ text = << >>
    /\ fin \in SessionSnapshots
    /\ arg = SessionState(None, NoImage)
    /\ op = "init"
    /\ ret = << >>

\* a plausible slip: the else branch that resets last_answer_img forgotten
Ask_keeps_image ==
    /\ Len(ret) < MaxAsks
    /\ \E q \in SessionQuestions :
          /\ Strip(q) # << >>
          /\ text' = q
          /\ \E out \in respond(q, fin) :
                /\ ret' = Append(ret, out)
                /\ arg' = IF IsExc(out) THEN arg
                          ELSE SessionState(out.text,
                                            IF out.fig # NoFigure THEN Png(out.fig)
                                            ELSE arg.last_answer_img)
    /\ op' = "ask"
    /\ UNCHANGED fin

\* Ask pressed with a question that is not blank: an exception of respond
\* leaves the script before session_state is written; fig.savefig is taken
\* to succeed
Ask ==
    /\ Len(ret) < MaxAsks
    /\ \E q \in SessionQuestions :
          /\ Strip(q) # << >>
          /\ text' = q
          /\ \E out \in respond(q, fin) :
                /\ ret' = Append(ret, out)
                /\ arg' = IF IsExc(out) THEN arg
                          ELSE SessionState(out.text,
                                            IF out.fig # NoFigure THEN Png(out.fig)
                                            ELSE NoImage)
    /\ op' = "ask"
    /\ UNCHANGED fin

\* Ask pressed with a blank question: q.strip() is falsy, nothing is done
AskBlank ==
    /\ \E q \in SessionQuestions :
          /\ Strip(q) = << >>
          /\ text' = q
    /\ op' = "ask_blank"
    /\ UNCHANGED <<fin, arg, ret>>

\* Export pressed: generate_pdf reads session_state
Export ==
    /\ op' = "export"
    /\ UNCHANGED <<text, fin, arg, ret>>

NextSession == Ask \/ AskBlank \/ Export

SpecSession == InitSession /\ [][NextSession]_vars

(***************************************************************************)
(* C14                                                                     *)
(***************************************************************************)
\* the answers respond has returned in the session, in order
Answered == SelectSeq(ret, LAMBDA out : ~IsExc(out))

\* C14: the pair (last_answer_text, last_answer_img) is (None, None) while no
\* question has been answered, and afterwards the text and the chart (None
\* when there is none) of the most recently answered question, whatever Ask,
\* blank Ask and Export interactions came before.
C14_SessionPair ==
    IF Answered = << >>
    THEN arg = SessionState(None, NoImage)
    ELSE LET last == Answered[Len(Answered)]
         IN  /\ last.text = arg.last_answer_text
             /\ arg.last_answer_img = IF last.fig = NoFigure THEN NoImage ELSE Png(last.fig)

\* an answer with a chart followed by an answer without one, then an Export
C14_Witness ==
    /\ op = "export"
    /\ Len(Answered) = 2
    /\ Answered[1].fig # NoFigure
    /\ Answered[2].fig = NoFigure
    /\ arg.last_answer_img = NoImage

====
